---- MODULE Spec2Model ----
(***************************************************************************)
(* Model of src/main.py: ticker resolver, input loader, news fetcher,      *)
(* summariser and the sequential pipeline driver.                          *)
(*                                                                         *)
(* Python strings are modelled as sequences of one-character strings, so   *)
(* that lower(), upper(), strip(), split(), int() and the `in` substring   *)
(* test are computed character by character.                               *)
(***************************************************************************)
EXTENDS Integers, Sequences, FiniteSets, TLC

VARIABLES
    rMode,      \* resolver call: which resolver call is pending
    rIn,        \* resolver call: the argument string
    rTicker,    \* resolver call: result of get_company_ticker
    rOut,       \* resolver call: result of get_company_name_from_ticker
    sResp,      \* search_news: the HTTP response of requests.get
    sPc,        \* search_news: "call", "returned", "raised" or "idle"
    sRet,       \* search_news: the returned list
    fileExists, \* os.path.exists("tickers.csv")
    fileRows,   \* rows of tickers.csv as csv.reader yields them
    argv,       \* sys.argv[1:]
    companies,  \* main: list of (ticker, company) pairs
    pc,         \* main: position in the function body
    i,          \* main: index of the current company
    articles,   \* main: list returned by search_news for the current company
    j,          \* main: index of the current article
    trace       \* externally observable events of main, in order

vars == <<rMode, rIn, rTicker, rOut, sResp, sPc, sRet, fileExists, fileRows,
          argv, companies, pc, i, articles, j, trace>>

resolverVars == <<rMode, rIn, rTicker, rOut>>
searchVars == <<sResp, sPc, sRet>>
mainVars == <<fileExists, fileRows, argv, companies, pc, i, articles, j, trace>>

-----------------------------------------------------------------------------
(* Bounds of the model *)

MaxTickerLen == 4

MaxResults == 4

MaxCells == 2

MaxArgs == 2

-----------------------------------------------------------------------------
(* str primitives *)

LowerChars == <<"a", "b", "c", "d", "e", "f", "g", "h", "i", "j", "k", "l", "m",
                "n", "o", "p", "q", "r", "s", "t", "u", "v", "w", "x", "y", "z", "é">>

UpperChars == <<"A", "B", "C", "D", "E", "F", "G", "H", "I", "J", "K", "L", "M",
                "N", "O", "P", "Q", "R", "S", "T", "U", "V", "W", "X", "Y", "Z", "É">>

ToLower(c) ==
    IF \E k \in 1..Len(UpperChars) : UpperChars[k] = c
    THEN LowerChars[CHOOSE k \in 1..Len(UpperChars) : UpperChars[k] = c]
    ELSE c

ToUpper(c) ==
    IF \E k \in 1..Len(LowerChars) : LowerChars[k] = c
    THEN UpperChars[CHOOSE k \in 1..Len(LowerChars) : LowerChars[k] = c]
    ELSE c

Lower(s) == [k \in 1..Len(s) |-> ToLower(s[k])]

Upper(s) == [k \in 1..Len(s) |-> ToUpper(s[k])]

\* Python `sub in s`
Contains(sub, s) ==
    \E k \in 0..(Len(s) - Len(sub)) : SubSeq(s, k + 1, k + Len(sub)) = sub

IsSpace(c) == c \in {" ", "\t", "\n"}

\* str.strip()
Strip(s) ==
    LET idx == {k \in 1..Len(s) : ~IsSpace(s[k])}
    IN  IF idx = {} THEN <<>>
        ELSE SubSeq(s, CHOOSE k \in idx : \A m \in idx : k <= m,
                       CHOOSE k \in idx : \A m \in idx : k >= m)

\* str.split(): the list of maximal whitespace-free runs
RECURSIVE Split(_)
Split(s) ==
    LET idx == {k \in 1..Len(s) : ~IsSpace(s[k])}
    IN  IF idx = {} THEN <<>>
        ELSE LET b == CHOOSE k \in idx : \A m \in idx : k <= m
                 stops == {k \in b..Len(s) : IsSpace(s[k])}
                 e == IF stops = {} THEN Len(s) + 1
                      ELSE CHOOSE k \in stops : \A m \in stops : k <= m
             IN  <<SubSeq(s, b, e - 1)>> \o Split(SubSeq(s, e, Len(s)))

Digits == <<"0", "1", "2", "3", "4", "5", "6", "7", "8", "9">>

IsDigit(c) == \E k \in 1..Len(Digits) : Digits[k] = c

DigitVal(c) == (CHOOSE k \in 1..Len(Digits) : Digits[k] = c) - 1

RECURSIVE DecimalVal(_)
DecimalVal(ds) ==
    IF ds = <<>> THEN 0
    ELSE 10 * DecimalVal(SubSeq(ds, 1, Len(ds) - 1)) + DigitVal(ds[Len(ds)])

\* int(tok) for a whitespace-free token: an optional sign and one or more
\* decimal digits; anything else raises ValueError (ok = FALSE)
ParseInt(tok) ==
    LET signed == tok # <<>> /\ tok[1] \in {"+", "-"}
        ds == IF signed THEN Tail(tok) ELSE tok
    IN  IF ds # <<>> /\ \A k \in 1..Len(ds) : IsDigit(ds[k])
        THEN [ok |-> TRUE,
              val |-> IF signed /\ tok[1] = "-" THEN 0 - DecimalVal(ds) ELSE DecimalVal(ds)]
        ELSE [ok |-> FALSE, val |-> 0]

-----------------------------------------------------------------------------
(* String literals of the program and of the inputs *)

sAAPL == <<"A", "A", "P", "L">>

sTSLA == <<"T", "S", "L", "A">>

sNESN == <<"N", "E", "S", "N">>

sMSFT == <<"M", "S", "F", "T">>

sAMZN == <<"A", "M", "Z", "N">>

sGOOGL == <<"G", "O", "O", "G", "L">>

sMETA == <<"M", "E", "T", "A">>

sNVDA == <<"N", "V", "D", "A">>

sNFLX == <<"N", "F", "L", "X">>

sApple == <<"A", "p", "p", "l", "e">>

sTesla == <<"T", "e", "s", "l", "a">>

sNestle == <<"N", "e", "s", "t", "l", "é">>

sMicrosoft == <<"M", "i", "c", "r", "o", "s", "o", "f", "t">>

sAmazon == <<"A", "m", "a", "z", "o", "n">>

sAlphabet == <<"A", "l", "p", "h", "a", "b", "e", "t">>

sMeta == <<"M", "e", "t", "a">>

sNvidia == <<"N", "v", "i", "d", "i", "a">>

sNetflix == <<"N", "e", "t", "f", "l", "i", "x">>

sNA == <<"N", "/", "A">>

dReuters == <<"r", "e", "u", "t", "e", "r", "s", ".", "c", "o", "m">>

dBloomberg == <<"b", "l", "o", "o", "m", "b", "e", "r", "g", ".", "c", "o", "m">>

dWsj == <<"w", "s", "j", ".", "c", "o", "m">>

dFt == <<"f", "t", ".", "c", "o", "m">>

dCnbc == <<"c", "n", "b", "c", ".", "c", "o", "m">>

dMarketwatch == <<"m", "a", "r", "k", "e", "t", "w", "a", "t", "c", "h", ".", "c", "o", "m">>

sHour == <<"h", "o", "u", "r">>

sMinute == <<"m", "i", "n", "u", "t", "e">>

sJustNow == <<"j", "u", "s", "t", " ", "n", "o", "w">>

sDay == <<"d", "a", "y">>

SkipSentinel == <<"S", "k", "i", "p", " ", "(", "n", "o", "t", " ", "r", "e", "l", "e", "v", "a", "n", "t", ")">>

ErrorString == <<"E", "r", "r", "o", "r", ":", " ", "C", "o", "u", "l", "d", " ", "n", "o", "t", " ", "s", "u", "m", "m", "a", "r", "i", "s", "e", " ", "a", "r", "t", "i", "c", "l", "e", ".">>

Placeholder == <<"_", "N", "o", " ", "r", "e", "l", "e", "v", "a", "n", "t", " ", "n", "e", "w", "s", " ", "f", "o", "u", "n", "d", ".", "_", "\n">>

Separator == <<"\n", "-", "-", "-", "\n">>

lReuters == <<"h", "t", "t", "p", "s", ":", "/", "/", "w", "w", "w", ".", "r", "e", "u", "t", "e", "r", "s", ".", "c", "o", "m", "/", "b", "u", "s", "i", "n", "e", "s", "s", "/", "x">>

lExample == <<"h", "t", "t", "p", "s", ":", "/", "/", "e", "x", "a", "m", "p", "l", "e", ".", "c", "o", "m", "/", "n", "e", "w", "s">>

lBloomberg == <<"h", "t", "t", "p", "s", ":", "/", "/", "b", "l", "o", "o", "m", "b", "e", "r", "g", ".", "c", "o", "m", "/", "a">>

lWsj == <<"h", "t", "t", "p", "s", ":", "/", "/", "w", "s", "j", ".", "c", "o", "m", "/", "b">>

lCnbc == <<"h", "t", "t", "p", "s", ":", "/", "/", "c", "n", "b", "c", ".", "c", "o", "m", "/", "c">>

lFt == <<"h", "t", "t", "p", "s", ":", "/", "/", "f", "t", ".", "c", "o", "m", "/", "d">>

lMarketwatch == <<"h", "t", "t", "p", "s", ":", "/", "/", "m", "a", "r", "k", "e", "t", "w", "a", "t", "c", "h", ".", "c", "o", "m", "/", "e">>

lLookalike == <<"h", "t", "t", "p", "s", ":", "/", "/", "n", "o", "t", "r", "e", "u", "t", "e", "r", "s", ".", "c", "o", "m", ".", "e", "v", "i", "l", ".", "i", "o", "/", "x">>

lSoft == <<"h", "t", "t", "p", "s", ":", "/", "/", "m", "i", "c", "r", "o", "s", "o", "f", "t", ".", "c", "o", "m", "/", "y">>

t3days == <<"3", " ", "d", "a", "y", "s", " ", "a", "g", "o">>

t9days == <<"9", " ", "d", "a", "y", "s", " ", "a", "g", "o">>

t2hours == <<"2", " ", "h", "o", "u", "r", "s", " ", "a", "g", "o">>

tLastWeek == <<"l", "a", "s", "t", " ", "w", "e", "e", "k">>

t1month == <<"1", " ", "m", "o", "n", "t", "h", " ", "a", "g", "o">>

tYesterday == <<"y", "e", "s", "t", "e", "r", "d", "a", "y">>

t10daystest == <<"1", "0", " ", "d", "a", "y", "s", "t", "e", "s", "t">>

t5daystest == <<"5", " ", "d", "a", "y", "s", "t", "e", "s", "t">>

tJustNow == <<"j", "u", "s", "t", " ", "n", "o", "w">>

t15min == <<"1", "5", " ", "m", "i", "n", "u", "t", "e", "s", " ", "a", "g", "o">>

t1day == <<"1", " ", "d", "a", "y", " ", "a", "g", "o">>

t7days == <<"7", " ", "d", "a", "y", "s", " ", "a", "g", "o">>

t8days == <<"8", " ", "d", "a", "y", "s", " ", "a", "g", "o">>

tNeg == <<"-", "2", " ", "d", "a", "y", "s", " ", "a", "g", "o">>

t10glued == <<"1", "0", "d", "a", "y", "s", " ", "a", "g", "o">>

sAcme == <<"A", "c", "m", "e">>

aTeslaPadded == <<" ", "t", "e", "s", "l", "a", " ">>

cTslaPadded == <<" ", "t", "s", "l", "a", " ">>

cBlank == <<" ">>

mBlock == <<"S", "u", "m", "m", "a", "r", "y", ":", " ", "e", "a", "r", "n", "i", "n", "g", "s", " ", "b", "e", "a", "t">>

mSkipDecorated == <<" ", "S", "k", "i", "p", " ", "(", "n", "o", "t", " ", "r", "e", "l", "e", "v", "a", "n", "t", ")", ".", " ">>

mQuota == <<"q", "u", "o", "t", "a", " ", "e", "x", "c", "e", "e", "d", "e", "d">>

TitleLine == <<"\n">> \o <<"#", " ", "N", "e", "w", "s", " ", "S", "u", "m", "m", "a", "r", "y">> \o <<"\n">>

-----------------------------------------------------------------------------
(* Configuration *)

CREDIBLE_SOURCES == <<dReuters, dBloomberg, dWsj, dFt, dCnbc, dMarketwatch>>

ARTICLES_PER_COMPANY == 3

SEARCH_DAYS == 7

\* the dict in insertion order, as (ticker, company) items
TICKER_COMPANY_MAP ==
    << <<sAAPL, sApple>>, <<sTSLA, sTesla>>, <<sNESN, sNestle>>,
       <<sMSFT, sMicrosoft>>, <<sAMZN, sAmazon>>, <<sGOOGL, sAlphabet>>,
       <<sMETA, sMeta>>, <<sNVDA, sNvidia>>, <<sNFLX, sNetflix>> >>

MapIdx == 1..Len(TICKER_COMPANY_MAP)

-----------------------------------------------------------------------------
(* Ticker resolver *)

\* a case-sensitive comparison in the reverse lookup
get_company_ticker_cs(company) ==
    LET hits == {k \in MapIdx : TICKER_COMPANY_MAP[k][2] = company}
    IN  IF hits = {} THEN sNA
        ELSE TICKER_COMPANY_MAP[CHOOSE k \in hits : \A m \in hits : k <= m][1]

get_company_ticker(company) ==
    LET hits == {k \in MapIdx : Lower(TICKER_COMPANY_MAP[k][2]) = Lower(company)}
    IN  IF hits = {} THEN sNA
        ELSE TICKER_COMPANY_MAP[CHOOSE k \in hits : \A m \in hits : k <= m][1]

get_company_name_from_ticker(ticker) ==
    LET u == Upper(ticker)
        hits == {k \in MapIdx : TICKER_COMPANY_MAP[k][1] = u}
    IN  IF hits = {} THEN u
        ELSE TICKER_COMPANY_MAP[CHOOSE k \in hits : TRUE][2]

-----------------------------------------------------------------------------
(* News fetcher *)

Credible(link) ==
    \E d \in 1..Len(CREDIBLE_SOURCES) : Contains(CREDIBLE_SOURCES[d], link)

\* the recency test without the SEARCH_DAYS comparison
RecencyNoThreshold(date_str) ==
    IF Contains(sHour, date_str) \/ Contains(sMinute, date_str) \/ Contains(sJustNow, date_str)
    THEN "accept"
    ELSE IF Contains(sDay, date_str)
         THEN IF ParseInt(Split(date_str)[1]).ok THEN "accept" ELSE "raise"
         ELSE "reject"

\* lines 74-80: "accept" falls through to the append, "reject" is `continue`,
\* "raise" is the ValueError of int() on a first token that is not an integer
Recency(date_str) ==
    IF Contains(sHour, date_str) \/ Contains(sMinute, date_str) \/ Contains(sJustNow, date_str)
    THEN "accept"
    ELSE IF Contains(sDay, date_str)
         THEN LET n == ParseInt(Split(date_str)[1])
              IN  IF ~n.ok THEN "raise"
                  ELSE IF n.val > SEARCH_DAYS THEN "reject" ELSE "accept"
         ELSE "reject"

Article(r) ==
    [title |-> r.title, link |-> r.link, snippet |-> r.snippet, source |-> Lower(r.source)]

\* the for loop over results, from element k on, with `filtered` so far
RECURSIVE FilterLoop(_, _, _)
FilterLoop(results, k, filtered) ==
    IF k > Len(results) THEN [raised |-> FALSE, value |-> filtered]
    ELSE LET r == results[k]
         IN  IF ~Credible(r.link) THEN FilterLoop(results, k + 1, filtered)
             ELSE LET rec == Recency(r.date)
                  IN  IF rec = "raise" THEN [raised |-> TRUE, value |-> <<>>]
                      ELSE IF rec = "reject" THEN FilterLoop(results, k + 1, filtered)
                      ELSE LET f2 == Append(filtered, Article(r))
                           IN  IF Len(f2) >= ARTICLES_PER_COMPANY
                               THEN [raised |-> FALSE, value |-> f2]
                               ELSE FilterLoop(results, k + 1, f2)

\* search_news without the status check
search_news_any_status(resp) == FilterLoop(resp.news_results, 1, <<>>)

\* search_news applied to the response of requests.get
search_news(resp) ==
    IF resp.status # 200 THEN [raised |-> FALSE, value |-> <<>>]
    ELSE FilterLoop(resp.news_results, 1, <<>>)

-----------------------------------------------------------------------------
(* Inputs of the fetcher *)

Raw(link, date, title) ==
    [link |-> link, source |-> <<"N", "e", "w", "s">>, title |-> title,
     snippet |-> "snippet", date |-> date]

RawResults ==
    { Raw(lReuters, t3days, "r1"), Raw(lExample, t2hours, "r2"),
      Raw(lBloomberg, t9days, "r3"), Raw(lWsj, t2hours, "r4"),
      Raw(lCnbc, tLastWeek, "r5"), Raw(lReuters, tYesterday, "r6"),
      Raw(lFt, t10daystest, "r7"), Raw(lMarketwatch, t5daystest, "r8") }

AllLinks ==
    { lReuters, lExample, lBloomberg, lWsj, lCnbc, lFt, lMarketwatch,
      lLookalike, lSoft, <<>> }

AllDates ==
    { t3days, t9days, t2hours, tLastWeek, t1month, tYesterday, t10daystest,
      t5daystest, tJustNow, t15min, t1day, t7days, t8days, tNeg,       t10glued, <<>> }

SeqsUpTo(S, n) == UNION {[1..m -> S] : m \in 0..n}

ResultLists ==
    SeqsUpTo(RawResults, MaxResults)
        \cup { <<Raw(l, d, "r0")>> : l \in AllLinks, d \in AllDates }

SearchResponses == [status : {200, 500}, news_results : ResultLists]

-----------------------------------------------------------------------------
(* Idle values of the variable groups a specification does not use *)

NoResp == [status |-> 0, news_results |-> <<>>]

ResolverIdle ==
    /\ rMode = "idle" /\ rIn = <<>> /\ rTicker = <<>> /\ rOut = <<>>

SearchIdle ==
    /\ sResp = NoResp /\ sPc = "idle" /\ sRet = <<>>

MainIdle ==
    /\ fileExists = FALSE /\ fileRows = <<>> /\ argv = <<>>
    /\ companies = <<>> /\ pc = "idle" /\ i = 0 /\ articles = <<>> /\ j = 0
    /\ trace = <<>>

-----------------------------------------------------------------------------
(* Resolver calls on bounded inputs *)

CaseVariants(s) ==
    { [k \in 1..Len(s) |-> IF b[k] THEN ToUpper(s[k]) ELSE ToLower(s[k])] :
        b \in [1..Len(s) -> BOOLEAN] }

DisplayNames == { TICKER_COMPANY_MAP[k][2] : k \in MapIdx }

TickerKeys == { TICKER_COMPANY_MAP[k][1] : k \in MapIdx }

NameInputs == UNION { CaseVariants(n) : n \in DisplayNames }

TickerAlphabet == {"a", "A", "P", "l", "x"}

TickerInputs == SeqsUpTo(TickerAlphabet, MaxTickerLen) \cup UNION { CaseVariants(t) : t \in TickerKeys }

InitResolver ==
    /\ \/ rMode = "name" /\ rIn \in NameInputs
       \/ rMode = "ticker" /\ rIn \in TickerInputs
    /\ rTicker = <<>> /\ rOut = <<>>
    /\ SearchIdle /\ MainIdle

\* get_company_name_from_ticker(get_company_ticker(rIn))
RoundTrip ==
    /\ rMode = "name"
    /\ rTicker' = get_company_ticker(rIn)
    /\ rOut' = get_company_name_from_ticker(get_company_ticker(rIn))
    /\ rMode' = "name_done"
    /\ UNCHANGED <<rIn, searchVars, mainVars>>

\* get_company_name_from_ticker(rIn)
LookupTicker ==
    /\ rMode = "ticker"
    /\ rOut' = get_company_name_from_ticker(rIn)
    /\ rMode' = "ticker_done"
    /\ UNCHANGED <<rIn, rTicker, searchVars, mainVars>>

NextResolver == RoundTrip \/ LookupTicker

SpecResolver == InitResolver /\ [][NextResolver]_vars

-----------------------------------------------------------------------------
(* search_news on bounded responses *)

InitSearch ==
    /\ sResp \in SearchResponses /\ sPc = "call" /\ sRet = <<>>
    /\ ResolverIdle /\ MainIdle

CallSearch ==
    /\ sPc = "call"
    /\ LET r == search_news(sResp)
       IN  /\ sPc' = IF r.raised THEN "raised" ELSE "returned"
           /\ sRet' = r.value
    /\ UNCHANGED <<sResp, resolverVars, mainVars>>

NextSearch == CallSearch

SpecSearch == InitSearch /\ [][NextSearch]_vars

-----------------------------------------------------------------------------
(* Input loader *)

RECURSIVE Flatten(_)
Flatten(rows) == IF rows = <<>> THEN <<>> ELSE Head(rows) \o Flatten(Tail(rows))

NonEmpty(x) == x # <<>>

\* every non-empty trimmed cell, row by row; the None of a missing file or of
\* an empty list is the empty sequence (main only tests the truth value)
read_tickers_from_csv(exists, rows) ==
    IF ~exists THEN <<>>
    ELSE LET cells == Flatten(rows)
         IN  SelectSeq([k \in 1..Len(cells) |-> Strip(cells[k])], NonEmpty)

default_companies == <<sApple, sTesla, sNestle>>

FromTickers(tickers) ==
    [k \in 1..Len(tickers) |-> <<tickers[k], get_company_name_from_ticker(tickers[k])>>]

FromNames(names) ==
    [k \in 1..Len(names) |-> <<get_company_ticker(Strip(names[k])), Strip(names[k])>>]

\* the input section with the command line tested before the file
load_companies_args_first(exists, rows, args) ==
    LET tickers == read_tickers_from_csv(exists, rows)
    IN  IF Len(args) > 0 THEN FromNames(args)
        ELSE IF tickers # <<>> THEN FromTickers(tickers)
        ELSE FromNames(default_companies)

\* lines 147-154 of main
load_companies(exists, rows, args) ==
    LET tickers == read_tickers_from_csv(exists, rows)
    IN  IF tickers # <<>> THEN FromTickers(tickers)
        ELSE IF Len(args) > 0 THEN FromNames(args)
        ELSE FromNames(default_companies)

-----------------------------------------------------------------------------
(* Summariser *)

\* gpt_summarise passing the response body through whatever the status
gpt_summarise_any_status(reply) == Strip(reply.content)

\* gpt_summarise applied to the response of requests.post
gpt_summarise(reply) ==
    IF reply.status = 200 THEN Strip(reply.content) ELSE ErrorString

\* the sentinel test as an equality
is_skip_exact(summary) == summary = SkipSentinel

\* line 166
is_skip(summary) == Contains(SkipSentinel, summary)

-----------------------------------------------------------------------------
(* Pipeline driver *)

\* an observable event of main: a printed line, a request or the sleep.
\* c is the company index, a the article index, st the status of the response
\* to a request, n the number of articles a search returned
Ev(k, c, a, st, n, text) ==
    [k |-> k, c |-> c, a |-> a, st |-> st, n |-> n, text |-> text]

Heading(ticker, company) ==
    <<"#", "#", " ">> \o company \o <<" ", "(">> \o ticker \o <<")", "\n">>

\* line 147-156: build the company list and print the title
LoadInput ==
    /\ pc = "start"
    /\ companies' = load_companies(fileExists, fileRows, argv)
    /\ trace' = Append(trace, Ev("title", 0, 0, 0, 0, TitleLine))
    /\ i' = 1
    /\ pc' = "company"
    /\ UNCHANGED <<fileExists, fileRows, argv, articles, j, resolverVars, searchVars>>

\* line 158-159: next iteration of the outer loop prints the heading
BeginCompany ==
    /\ pc = "company"
    /\ i <= Len(companies)
    /\ trace' = Append(trace, Ev("h2", i, 0, 0, 0, Heading(companies[i][1], companies[i][2])))
    /\ pc' = "search"
    /\ UNCHANGED <<fileExists, fileRows, argv, companies, i, articles, j, resolverVars, searchVars>>

\* line 160-163: search_news, then the placeholder and `continue` on an
\* empty list; an exception of search_news ends main
Search(resp) ==
    /\ pc = "search"
    /\ LET r == search_news(resp)
           get == Ev("get", i, 0, resp.status, Len(r.value), companies[i][2])
       IN  /\ sResp' = resp
           /\ sPc' = IF r.raised THEN "raised" ELSE "returned"
           /\ sRet' = r.value
           /\ IF r.raised
              THEN /\ trace' = Append(trace, get)
                   /\ pc' = "crashed"
                   /\ UNCHANGED <<i, articles, j>>
              ELSE IF r.value = <<>>
              THEN /\ trace' = trace \o <<get, Ev("none", i, 0, 0, 0, Placeholder)>>
                   /\ articles' = <<>>
                   /\ i' = i + 1
                   /\ pc' = "company"
                   /\ UNCHANGED j
              ELSE /\ trace' = Append(trace, get)
                   /\ articles' = r.value
                   /\ j' = 1
                   /\ pc' = "article"
                   /\ UNCHANGED i
    /\ UNCHANGED <<fileExists, fileRows, argv, companies, resolverVars>>

\* line 164-169: one iteration of the inner loop
Summarise(reply) ==
    /\ pc = "article"
    /\ j <= Len(articles)
    /\ LET summary == gpt_summarise(reply)
           post == Ev("post", i, j, reply.status, 0, summary)
       IN  trace' = IF is_skip(summary)
                    THEN Append(trace, post)
                    ELSE trace \o <<post, Ev("summary", i, j, 0, 0, summary),
                                    Ev("sep", i, j, 0, 0, Separator)>>
    /\ j' = j + 1
    /\ pc' = IF j + 1 > Len(articles) THEN "sleep" ELSE "article"
    /\ UNCHANGED <<fileExists, fileRows, argv, companies, i, articles, resolverVars, searchVars>>

\* line 170
Sleep ==
    /\ pc = "sleep"
    /\ trace' = Append(trace, Ev("sleep", i, 0, 0, 0, <<>>))
    /\ i' = i + 1
    /\ pc' = "company"
    /\ UNCHANGED <<fileExists, fileRows, argv, companies, articles, j, resolverVars, searchVars>>

\* the outer loop is exhausted and main returns
Finish ==
    /\ pc = "company"
    /\ i > Len(companies)
    /\ pc' = "done"
    /\ UNCHANGED <<fileExists, fileRows, argv, companies, i, articles, j, trace, resolverVars, searchVars>>

-----------------------------------------------------------------------------
(* Inputs of a run of main *)

Input(exists, rows, args) == [exists |-> exists, rows |-> rows, args |-> args]

DriverInputs ==
    { Input(TRUE, << <<sAAPL>>, <<sTSLA>> >>, <<>>),
      Input(FALSE, <<>>, <<>>),
      Input(FALSE, <<>>, <<aTeslaPadded, sAcme>>) }

DriverResponses ==
    { [status |-> 500, news_results |-> <<Raw(lReuters, t1day, "r1")>>],
      [status |-> 200, news_results |-> <<>>],
      [status |-> 200, news_results |-> <<Raw(lReuters, t1day, "r1")>>],
      [status |-> 200, news_results |->
          <<Raw(lExample, t2hours, "r2"), Raw(lReuters, t3days, "r1"), Raw(lWsj, t2hours, "r4")>>],
      [status |-> 200, news_results |->
          <<Raw(lBloomberg, tJustNow, "r3"), Raw(lCnbc, t9days, "r5"), Raw(lFt, t7days, "r7"),
            Raw(lMarketwatch, t15min, "r8"), Raw(lWsj, t2hours, "r4")>>],
      [status |-> 200, news_results |-> <<Raw(lReuters, tYesterday, "r6")>>] }

DriverReplies ==
    { [status |-> 200, content |-> mBlock],
      [status |-> 200, content |-> mSkipDecorated],
      [status |-> 500, content |-> mQuota] }

Init ==
    /\ \E in \in DriverInputs :
          /\ fileExists = in.exists
          /\ fileRows = in.rows
          /\ argv = in.args
    /\ companies = <<>> /\ pc = "start" /\ i = 0 /\ articles = <<>> /\ j = 0
    /\ trace = <<>>
    /\ ResolverIdle /\ SearchIdle

Next ==
    \/ LoadInput
    \/ BeginCompany
    \/ \E resp \in DriverResponses : Search(resp)
    \/ \E reply \in DriverReplies : Summarise(reply)
    \/ Sleep
    \/ Finish

Spec == Init /\ [][Next]_vars

-----------------------------------------------------------------------------
(* The input loader on bounded inputs *)

Cells == {sAAPL, cTslaPadded, cBlank}

ArgWords == {aTeslaPadded, sAcme}

Rows == SeqsUpTo(Cells, MaxCells)

\* files of no, one or two rows
Files == {<<>>} \cup {<<r>> : r \in Rows} \cup {<<r1, r2>> : r1 \in Rows, r2 \in Rows}

InitLoader ==
    /\ fileExists \in BOOLEAN
    /\ fileRows \in Files
    /\ argv \in SeqsUpTo(ArgWords, MaxArgs)
    /\ companies = <<>> /\ pc = "start" /\ i = 0 /\ articles = <<>> /\ j = 0
    /\ trace = <<>>
    /\ ResolverIdle /\ SearchIdle

NextLoader == LoadInput

SpecLoader == InitLoader /\ [][NextLoader]_vars

-----------------------------------------------------------------------------
(* Properties of the resolver *)

\* C7: for every display name of the mapping in any letter case,
\* get_company_name_from_ticker(get_company_ticker(name)) is that entry's
\* display name; for every symbol whose uppercase form is not a key of the
\* mapping, get_company_name_from_ticker returns the uppercased input.
C7_RoundTrip ==
    /\ rMode = "name_done" =>
          \E k \in MapIdx :
              /\ Lower(TICKER_COMPANY_MAP[k][2]) = Lower(rIn)
              /\ rTicker = TICKER_COMPANY_MAP[k][1]
              /\ rOut = TICKER_COMPANY_MAP[k][2]
    /\ (rMode = "ticker_done" /\ Upper(rIn) \notin TickerKeys) => rOut = Upper(rIn)

C7_Witness ==
    /\ rMode = "name_done"
    /\ rIn = Lower(sMicrosoft)
    /\ rOut = sMicrosoft

-----------------------------------------------------------------------------
(* Properties of search_news *)

Range(f) == { f[k] : k \in DOMAIN f }

Take(s, n) == SubSeq(s, 1, IF Len(s) < n THEN Len(s) ELSE n)

\* the leading digits of a date string, after an optional sign
LeadingDigits(d) ==
    LET body == IF d # <<>> /\ d[1] \in {"+", "-"} THEN Tail(d) ELSE d
        stops == {k \in 1..Len(body) : ~IsDigit(body[k])}
        e == IF stops = {} THEN Len(body) + 1
             ELSE CHOOSE k \in stops : \A m \in stops : k <= m
    IN  SubSeq(body, 1, e - 1)

LeadingCount(d) ==
    IF d # <<>> /\ d[1] = "-" THEN 0 - DecimalVal(LeadingDigits(d))
    ELSE DecimalVal(LeadingDigits(d))

\* the recency rule as the specification words it
StatedRecent(d) ==
    \/ Contains(sHour, d) \/ Contains(sMinute, d) \/ Contains(sJustNow, d)
    \/ /\ Contains(sDay, d)
       /\ LeadingDigits(d) # <<>>
       /\ LeadingCount(d) <= 7

StatedPass(r) == Credible(r.link) /\ StatedRecent(r.date)

Articles(rs) == [k \in 1..Len(rs) |-> Article(rs[k])]

SearchEnded == sPc \in {"returned", "raised"}

\* C2: a credible result is accepted when its date contains "hour", "minute"
\* or "just now", or contains "day" and begins with an integer <= 7; every
\* other date string makes the result dropped, and search_news goes on and
\* returns a list.
C2_RecencyFilter ==
    (SearchEnded /\ sResp.status = 200) =>
        /\ sPc = "returned"
        /\ \A k \in 1..Len(sResp.news_results) :
              LET r == sResp.news_results[k]
              IN  Credible(r.link) =>
                    /\ ~StatedRecent(r.date) => Article(r) \notin Range(sRet)
                    /\ (Len(sResp.news_results) = 1 /\ StatedRecent(r.date)) =>
                           sRet = <<Article(r)>>

\* C3: for a success response, search_news returns exactly the first
\* min(3, k) results, in response order, of the k results that pass the
\* credibility and the recency filter.
C3_FirstThree ==
    (SearchEnded /\ sResp.status = 200) =>
        /\ sPc = "returned"
        /\ sRet = Take(Articles(SelectSeq(sResp.news_results, StatedPass)), 3)

\* C10 as stated: a credible result dated "10 daystest" is accepted.
C10_Original ==
    \A l \in AllLinks :
        (SearchEnded /\ sResp.status = 200 /\ Credible(l)
            /\ sResp.news_results = <<Raw(l, t10daystest, "r0")>>) =>
        sRet = <<Article(Raw(l, t10daystest, "r0"))>>

\* C10 as amended: a credible result whose date contains "day" (and none of
\* "hour", "minute", "just now") and whose first whitespace-delimited token
\* is an integer is accepted exactly when that integer is <= 7; so
\* "10 daystest" is rejected and "5 daystest" is accepted.
C10_Amended ==
    (SearchEnded /\ sResp.status = 200 /\ Len(sResp.news_results) = 1) =>
        LET r == sResp.news_results[1]
            d == r.date
        IN  (/\ Credible(r.link)
             /\ Contains(sDay, d)
             /\ ~(Contains(sHour, d) \/ Contains(sMinute, d) \/ Contains(sJustNow, d))
             /\ ParseInt(Split(d)[1]).ok) =>
                /\ sPc = "returned"
                /\ sRet = IF ParseInt(Split(d)[1]).val <= 7 THEN <<Article(r)>> ELSE <<>>
                /\ d = t10daystest => sRet = <<>>
                /\ d = t5daystest => sRet = <<Article(r)>>

C10_Witness ==
    /\ sPc = "returned"
    /\ sResp.status = 200
    /\ sResp.news_results = <<Raw(lFt, t10daystest, "r7")>>
    /\ sRet = <<>>

-----------------------------------------------------------------------------
(* Properties of the input loader *)

\* positions (row, column) of the cells of tickers.csv that are kept
KeptCells ==
    { p \in (1..Len(fileRows)) \X (1..MaxCells + 1) :
        /\ p[2] <= Len(fileRows[p[1]])
        /\ Strip(fileRows[p[1]][p[2]]) # <<>> }

Before(p, q) == p[1] < q[1] \/ (p[1] = q[1] /\ p[2] <= q[2])

Rank(p) == Cardinality({q \in KeptCells : Before(q, p)})

\* C6: the company list comes from the ticker file whenever the file exists
\* and has a non-empty trimmed cell, even when arguments are given; otherwise
\* from the arguments when there are any; otherwise it is the default list
\* Apple, Tesla, Nestle; each time with the length and order of its source,
\* duplicates kept.
C6_LoaderPrecedence ==
    pc = "company" =>
        IF fileExists /\ KeptCells # {}
        THEN /\ Len(companies) = Cardinality(KeptCells)
             /\ \A p \in KeptCells :
                   companies[Rank(p)][1] = Strip(fileRows[p[1]][p[2]])
        ELSE IF argv # <<>>
        THEN /\ Len(companies) = Len(argv)
             /\ \A k \in 1..Len(argv) : companies[k][2] = Strip(argv[k])
        ELSE companies = << <<sAAPL, sApple>>, <<sTSLA, sTesla>>, <<sNESN, sNestle>> >>

C6_Witness ==
    /\ pc = "company"
    /\ fileExists
    /\ argv # <<>>
    /\ fileRows = << <<cBlank, sAAPL>>, <<sAAPL>> >>
    /\ companies = << <<sAAPL, sApple>>, <<sAAPL, sApple>> >>

-----------------------------------------------------------------------------
(* Properties of the pipeline driver *)

Pos == 1..Len(trace)

MainEnded == pc \in {"done", "crashed"}

\* what follows the events of article a of company c, which has n articles:
\* the request for the next article, or the sleep after the last one
Continues(p, c, a) ==
    IF p < Len(trace)
    THEN \/ trace[p + 1].k = "post" /\ trace[p + 1].c = c /\ trace[p + 1].a = a + 1
         \/ trace[p + 1].k = "sleep" /\ trace[p + 1].c = c
    ELSE \/ pc = "article" /\ i = c /\ j = a + 1
         \/ pc = "sleep" /\ i = c

\* C1: for every company other than the first, a sleep occurs after the
\* previous company's search request and before this company's search
\* request, whatever the previous search returned.
C1_SleepBetweenSearches ==
    \A p \in Pos, q \in Pos :
        (trace[p].k = "get" /\ trace[q].k = "get" /\ trace[q].c = trace[p].c + 1) =>
            \E m \in Pos : p < m /\ m < q /\ trace[m].k = "sleep"

\* C4: a search response with a non-success status gives an empty article
\* list without failing; the driver prints the placeholder for that company,
\* sends no summariser request for it and goes on with the next company.
C4_SearchFailure ==
    \A p \in Pos :
        (trace[p].k = "get" /\ trace[p].st # 200) =>
            /\ trace[p].n = 0
            /\ p < Len(trace)
            /\ trace[p + 1].k = "none" /\ trace[p + 1].c = trace[p].c
            /\ \A q \in Pos : trace[q].k = "post" => trace[q].c # trace[p].c
            /\ IF p + 1 < Len(trace)
               THEN trace[p + 2].k = "h2" /\ trace[p + 2].c = trace[p].c + 1
               ELSE \/ pc = "company" /\ i = trace[p].c + 1
                    \/ pc = "done" /\ trace[p].c = Len(companies)

C4_Witness ==
    \E p \in Pos :
        /\ trace[p].k = "get" /\ trace[p].st = 500
        /\ p + 2 <= Len(trace)
        /\ trace[p + 1].k = "none"
        /\ trace[p + 2].k = "h2"

\* C5: for an article whose summariser result contains "Skip (not relevant)"
\* nothing is printed, neither summary nor separator; for any other result
\* the summary is printed followed by exactly one separator; in both cases
\* the remaining articles of the company are processed.
C5_SkipSuppressed ==
    \A p \in Pos :
        trace[p].k = "post" =>
            LET c == trace[p].c
                a == trace[p].a
                printed == {q \in Pos : trace[q].k \in {"summary", "sep"}
                                          /\ trace[q].c = c /\ trace[q].a = a}
            IN  IF Contains(SkipSentinel, trace[p].text)
                THEN printed = {} /\ Continues(p, c, a)
                ELSE /\ printed = {p + 1, p + 2}
                     /\ trace[p + 1].k = "summary" /\ trace[p + 1].text = trace[p].text
                     /\ trace[p + 2].k = "sep" /\ trace[p + 2].text = Separator
                     /\ Continues(p + 2, c, a)

C5_Witness ==
    \E p \in Pos :
        /\ trace[p].k = "post"
        /\ Contains(SkipSentinel, trace[p].text)
        /\ trace[p].text # SkipSentinel
        /\ p + 2 <= Len(trace)
        /\ trace[p + 1].k = "post"
        /\ trace[p + 2].k = "summary"

\* C8: every article the fetcher returned gets exactly one summariser
\* request; a non-success reply gives the fixed error string, which is
\* printed like a summary followed by a separator, is not retried, and the
\* remaining articles and companies are still processed.
C8_SummariserFailure ==
    /\ \A p \in Pos :
          trace[p].k = "get" =>
              LET c == trace[p].c
                  reqs(a) == {q \in Pos : trace[q].k = "post" /\ trace[q].c = c /\ trace[q].a = a}
                  finished == \E q \in Pos : q > p /\ trace[q].k \in {"sleep", "none"} /\ trace[q].c = c
              IN  /\ \A q \in Pos : (trace[q].k = "post" /\ trace[q].c = c) =>
                                        (q > p /\ trace[q].a \in 1..trace[p].n)
                  /\ \A a \in 1..trace[p].n :
                        /\ Cardinality(reqs(a)) <= 1
                        /\ finished => Cardinality(reqs(a)) = 1
                  /\ (sPc = "returned" /\ ~finished) => pc \in {"article", "sleep"} /\ i = c
    /\ \A p \in Pos :
          (trace[p].k = "post" /\ trace[p].st # 200) =>
              /\ trace[p].text = ErrorString
              /\ p + 2 <= Len(trace)
              /\ trace[p + 1] = Ev("summary", trace[p].c, trace[p].a, 0, 0, ErrorString)
              /\ trace[p + 2] = Ev("sep", trace[p].c, trace[p].a, 0, 0, Separator)
              /\ Continues(p + 2, trace[p].c, trace[p].a)
    /\ \A p \in Pos :
          (trace[p].k = "sleep" /\ trace[p].c < Len(companies)) =>
              IF p < Len(trace)
              THEN trace[p + 1].k = "h2" /\ trace[p + 1].c = trace[p].c + 1
              ELSE pc = "company" /\ i = trace[p].c + 1

C8_Witness ==
    \E p \in Pos :
        /\ trace[p].k = "post" /\ trace[p].st = 500
        /\ p + 5 <= Len(trace)
        /\ trace[p + 1].text = ErrorString
        /\ trace[p + 3].k = "post"
        /\ \E q \in Pos : q > p /\ trace[q].k = "h2"

H2Events == SelectSeq(trace, LAMBDA e : e.k = "h2")

\* the events between the heading of company c and the next heading
Body(c) ==
    SelectSeq(trace, LAMBDA e : e.c = c /\ e.k \in {"none", "summary", "sep"})

RECURSIVE Blocks(_)
Blocks(b) ==
    \/ b = <<>>
    \/ /\ Len(b) >= 2
       /\ b[1].k = "summary" /\ b[2].k = "sep"
       /\ Blocks(SubSeq(b, 3, Len(b)))

\* C9: a run of main prints exactly one heading "<company> (<ticker>)" per
\* input pair, in input order, each followed before the next heading by the
\* placeholder or by one summary block plus one separator per summarised
\* article; for the file AAPL, TSLA the headings are "Apple (AAPL)" then
\* "Tesla (TSLA)".
C9_OutputStructure ==
    MainEnded =>
        /\ Len(H2Events) = Len(companies)
        /\ \A k \in 1..Len(H2Events) :
              /\ H2Events[k].c = k
              /\ H2Events[k].text = Heading(companies[k][1], companies[k][2])
              /\ \/ Len(Body(k)) = 1 /\ Body(k)[1].k = "none"
                 \/ Blocks(Body(k))
        /\ \A p \in Pos, q \in Pos :
              (p < q /\ trace[p].k = "h2") => trace[p].c <= trace[q].c
        /\ (fileExists /\ fileRows = << <<sAAPL>>, <<sTSLA>> >>) =>
              /\ H2Events[1].text = <<"#", "#", " ">> \o sApple \o <<" ", "(">> \o sAAPL \o <<")", "\n">>
              /\ H2Events[2].text = <<"#", "#", " ">> \o sTesla \o <<" ", "(">> \o sTSLA \o <<")", "\n">>

====
